---- MODULE Spec2Model ----
(***************************************************************************)
(* A model of entities.clients.files.FileClient: one client object shared  *)
(* by concurrent callers, each running one of the six methods step by      *)
(* step (open, send and handle the response, leave the with block, except  *)
(* handler, return or raise).                                              *)
(***************************************************************************)
EXTENDS Integers, Sequences, FiniteSets, TLC

\* ------------------------------------------------------------------ bounds

\* Calls started over the client's lifetime (caps the two counters).
MaxCalls == 2

\* Threads sharing the one client.
Callers == {"t1", "t2"}

\* ------------------------------------------------------- python values

\* Optional[x]: None is <<>>, a value x is <<x>>.
None == <<>>

Some(x) == <<x>>

\* Python truthiness of an Optional[str]: None and "" are both falsy.
Truthy(opt) == opt # None /\ opt[1] # ""

\* ------------------------------------------------------------ input sets

BaseUrls == {"http://files.local"}

ApiKeys == {None, Some(""), Some("sk-1")}

UserIds == {"u1"}

Purposes == {"assistants"}

FileIds == {"f1"}

\* A file name is a stem and an extension ("" when there is none).
FileNames == {[stem |-> "a", ext |-> "txt"], [stem |-> "a", ext |-> "xyz"]}

\* A path is a directory and a file name.
FilePaths == [dir : {"data", "missing"}, name : FileNames] \ {[dir |-> "missing", name |-> [stem |-> "a", ext |-> "xyz"]]}

Contents == {"bytes0", "bytes1"}

\* The local file system: what open(file_path, 'rb') finds.
FileExists(file_path) == file_path.dir = "data"

FileContent(file_path) == IF file_path.name.ext = "txt" THEN "bytes0" ELSE "bytes1"

\* ------------------------------------------------------- server answers

StatusCodes == {200, 302, 404}

\* The bodies a server may send: not JSON at all, a JSON boolean, a complete
\* file record, a record without its id, and an object with the two
\* auxiliary fields.
BodyNames == {"garbage", "true", "record", "record_no_id", "urls"}

\* The bodies sent with a failure status: malformed and not conforming.
FailureBodyNames == {"garbage", "record_no_id"}

\* What a request comes back with: a network failure, or a status and a body.
Responses ==
  {[arrived |-> FALSE]}
    \cup {r \in [arrived : {TRUE}, status_code : StatusCodes, content : BodyNames] :
            r.status_code = 200 \/ r.content \in FailureBodyNames}

Record == [id |-> "f1", purpose |-> "assistants", user_id |-> "u1", filename |-> "a.txt"]

RecordNoId == [purpose |-> "assistants", user_id |-> "u1", filename |-> "a.txt"]

Urls == [signed_url |-> "https://cdn/f1?sig=1", base64 |-> "Ynl0ZXMw"]

\* response.json(): the parsed value, or a decode failure.
json(content) ==
  CASE content = "garbage" -> [ok |-> FALSE]
    [] content = "true" -> [ok |-> TRUE, t |-> "bool", v |-> TRUE]
    [] content = "record" -> [ok |-> TRUE, t |-> "object", v |-> Record]
    [] content = "record_no_id" -> [ok |-> TRUE, t |-> "object", v |-> RecordNoId]
    [] OTHER -> [ok |-> TRUE, t |-> "object", v |-> Urls]

\* The fields FileResponse requires (the schema lives in entities_common).
RequiredFields == {"id", "purpose", "user_id", "filename"}

\* FileResponse.model_validate(file_data): a FileResponse or a ValidationError.
model_validate(file_data) ==
  IF file_data.t = "object" /\ RequiredFields \subseteq DOMAIN file_data.v
    THEN [ok |-> TRUE, v |-> [t |-> "FileResponse", v |-> file_data.v]]
    ELSE [ok |-> FALSE]

\* A status test that lets redirects through.
is_success_below_400(status_code) == status_code < 400

\* response.is_success, which raise_for_status() tests: httpx raises for
\* every status that is not 2xx, redirects included.
is_success(status_code) == 200 <= status_code /\ status_code <= 299

\* ------------------------------------------------------------ mimetypes

\* mimetypes.guess_type(url)[0]: the type the extension of the last path
\* component maps to, or None. Called with a path record or with a file name.
guess_type(url) ==
  LET ext == IF "name" \in DOMAIN url THEN url.name.ext ELSE url.ext
  IN CASE ext = "txt" -> Some("text/plain")
       [] ext = "png" -> Some("image/png")
       [] OTHER -> None

\* The guess passed on without its default.
mime_or_default_missing(mime_type) == IF mime_type = None THEN "None" ELSE mime_type[1]

\* mime_type or 'application/octet-stream'
mime_or_default(mime_type) == IF Truthy(mime_type) THEN mime_type[1] ELSE "application/octet-stream"

\* os.path.basename(file_path)
basename(file_path) == file_path.name

\* ---------------------------------------------------------------- state

VARIABLES base_url, api_key, client, ctor, call, calls, requests

vars == <<base_url, api_key, client, ctor, call, calls, requests>>

Ops == {"upload_file", "upload_file_object", "retrieve_file", "delete_file", "download_file_as_object", "get_signed_url", "get_file_as_base64"}

IdOps == Ops \ {"upload_file", "upload_file_object"}

\* Headers built without the test for a missing key.
default_headers_always(key) == {<<"Authorization", <<"Bearer", IF key = None THEN "None" ELSE key[1]>>>>}

\* The headers httpx.Client is built with.
default_headers(key) == IF Truthy(key) THEN {<<"Authorization", <<"Bearer", key[1]>>>>} ELSE {}

\* FileClient.__init__
FileClient_init(url, key) == [base_url |-> url, api_key |-> key, client |-> [base_url |-> url, headers |-> default_headers(key)]]

Idle == [op |-> "none", pc |-> "idle", args |-> None, handle |-> "none", request |-> None, response |-> None, pending |-> None, result |-> None, outcome |-> None, log |-> <<>>, nreq |-> 0]

Init ==
  \E url \in BaseUrls, key \in ApiKeys :
    /\ base_url = FileClient_init(url, key).base_url
    /\ api_key = FileClient_init(url, key).api_key
    /\ client = FileClient_init(url, key).client
    /\ ctor = [base_url |-> url, api_key |-> key]
    /\ call = [c \in Callers |-> Idle]
    /\ calls = 0
    /\ requests = 0

\* ------------------------------------------------------------ exceptions

\* An exception: its type, its message, and what str(e) mentions.
Exc(type, msg, about) == [type |-> type, msg |-> msg, about |-> about]

\* A log record: level, format string (in its parts) and arguments (each
\* tagged with its kind).
LogEntry(level, msg, args) == [level |-> level, msg |-> msg, args |-> args]

Arg(k, v) == [k |-> k, v |-> v]

\* ------------------------------------------------------------- requests

\* httpx.Client.request: the client's base URL and default headers go on
\* every request; the methods pass no headers of their own.
build_request(cl, method, path, data, files) ==
  [method |-> method, base_url |-> cl.base_url, path |-> path, headers |-> cl.headers, data |-> data, files |-> files]

\* A send that strips the client's default headers.
client_after_request_resets(cl) == [cl EXCEPT !.headers = {}]

\* Sending a request leaves the client's configuration as it was.
client_after_request(cl) == cl

\* The form fields of both uploads.
form_data(purpose, user_id) == [purpose |-> purpose, user_id |-> user_id]

\* upload_file: files = {'file': (filename, file_object, mime_type)}, posted.
upload_file_request(cl, args) ==
  build_request(cl, "POST", <<"v1", "uploads">>, Some(form_data(args.purpose, args.user_id)),
    Some([field |-> "file", filename |-> basename(args.file_path), content |-> FileContent(args.file_path),
          content_type |-> mime_or_default(guess_type(args.file_path))]))

\* A stream upload that never guesses the type.
upload_file_object_request_untyped(cl, args) ==
  build_request(cl, "POST", <<"v1", "uploads">>, Some(form_data(args.purpose, args.user_id)),
    Some([field |-> "file", filename |-> args.file_name, content |-> args.file_object,
          content_type |-> "application/octet-stream"]))

\* upload_file_object: files = {'file': (file_name, file_object, mime_type)}, posted.
upload_file_object_request(cl, args) ==
  build_request(cl, "POST", <<"v1", "uploads">>, Some(form_data(args.purpose, args.user_id)),
    Some([field |-> "file", filename |-> args.file_name, content |-> args.file_object,
          content_type |-> mime_or_default(guess_type(args.file_name))]))

retrieve_file_request(cl, args) == build_request(cl, "GET", <<"v1", "uploads", args.file_id>>, None, None)

delete_file_request(cl, args) == build_request(cl, "DELETE", <<"v1", "uploads", args.file_id>>, None, None)

download_file_as_object_request(cl, args) == build_request(cl, "GET", <<"v1", "uploads", args.file_id, "object">>, None, None)

get_signed_url_request(cl, args) == build_request(cl, "GET", <<"v1", "uploads", args.file_id, "signed-url">>, None, None)

get_file_as_base64_request(cl, args) == build_request(cl, "GET", <<"v1", "uploads", args.file_id, "base64">>, None, None)

RequestOf(op, cl, args) ==
  CASE op = "upload_file" -> upload_file_request(cl, args)
    [] op = "upload_file_object" -> upload_file_object_request(cl, args)
    [] op = "retrieve_file" -> retrieve_file_request(cl, args)
    [] op = "delete_file" -> delete_file_request(cl, args)
    [] op = "download_file_as_object" -> download_file_as_object_request(cl, args)
    [] op = "get_signed_url" -> get_signed_url_request(cl, args)
    [] OTHER -> get_file_as_base64_request(cl, args)

\* ------------------------------------------- the try blocks, after the send

\* What the rest of a try block yields: an exception or a value, and the info
\* records logged on the way.
Raised(e) == [raised |-> Some(e), value |-> None, log |-> <<>>]

Returned(v, log) == [raised |-> None, value |-> Some(v), log |-> log]

\* response.raise_for_status(): HTTPStatusError unless the status is 2xx; its
\* text names the status and the request's URL.
raise_for_status(request, response) ==
  IF is_success(response.status_code) THEN None
  ELSE Some(Exc("HTTPStatusError", "status", Some(Arg("url", request.path))))

\* A tail that hands the parsed body back without validating it.
file_response_tail_unvalidated(request, response, msg, arg) ==
  IF raise_for_status(request, response) # None THEN Raised(raise_for_status(request, response)[1])
  ELSE IF ~json(response.content).ok THEN Raised(Exc("JSONDecodeError", "Expecting value", None))
  ELSE Returned([t |-> "FileResponse", v |-> json(response.content).v], <<LogEntry("info", <<msg>>, <<arg>>)>>)

\* raise_for_status, json, model_validate, info, return: the tail shared by
\* the three methods that return a FileResponse.
file_response_tail(request, response, msg, arg) ==
  IF raise_for_status(request, response) # None THEN Raised(raise_for_status(request, response)[1])
  ELSE IF ~json(response.content).ok THEN Raised(Exc("JSONDecodeError", "Expecting value", None))
  ELSE IF ~model_validate(json(response.content)).ok THEN Raised(Exc("ValidationError", "validation errors for FileResponse", None))
  ELSE Returned(model_validate(json(response.content)).v, <<LogEntry("info", <<msg>>, <<arg>>)>>)

upload_file_tail(args, request, response) ==
  file_response_tail(request, response, "File uploaded successfully with ID: %s", Arg("response_id", "id"))

upload_file_object_tail(args, request, response) ==
  file_response_tail(request, response, "File uploaded successfully with ID: %s", Arg("response_id", "id"))

retrieve_file_tail(args, request, response) ==
  file_response_tail(request, response, "File metadata retrieved successfully for ID: %s", Arg("file_id", args.file_id))

\* delete_file returns response.json() as it is.
delete_file_tail(args, request, response) ==
  IF raise_for_status(request, response) # None THEN Raised(raise_for_status(request, response)[1])
  ELSE IF ~json(response.content).ok THEN Raised(Exc("JSONDecodeError", "Expecting value", None))
  ELSE Returned([t |-> json(response.content).t, v |-> json(response.content).v],
                <<LogEntry("info", <<"File deletion result for ID %s: %s">>, <<Arg("file_id", args.file_id), Arg("result", "deletion_result")>>)>>)

\* download_file_as_object returns io.BytesIO(response.content), at offset 0.
download_file_as_object_tail(args, request, response) ==
  IF raise_for_status(request, response) # None THEN Raised(raise_for_status(request, response)[1])
  ELSE Returned([t |-> "BytesIO", v |-> response.content, pos |-> 0], <<>>)

\* data[key] in place of data.get(key): KeyError when the field is absent.
get_field_indexing(request, response, key) ==
  IF raise_for_status(request, response) # None THEN Raised(raise_for_status(request, response)[1])
  ELSE IF ~json(response.content).ok THEN Raised(Exc("JSONDecodeError", "Expecting value", None))
  ELSE IF json(response.content).t # "object" THEN Raised(Exc("TypeError", "object is not subscriptable", None))
  ELSE IF key \in DOMAIN json(response.content).v THEN Returned([t |-> "str", v |-> json(response.content).v[key]], <<>>)
  ELSE Raised(Exc("KeyError", key, None))

\* data.get(key): the field's value, None when the object has no such field,
\* AttributeError when data is no object.
get_field(request, response, key) ==
  IF raise_for_status(request, response) # None THEN Raised(raise_for_status(request, response)[1])
  ELSE IF ~json(response.content).ok THEN Raised(Exc("JSONDecodeError", "Expecting value", None))
  ELSE IF json(response.content).t # "object" THEN Raised(Exc("AttributeError", "object has no attribute 'get'", None))
  ELSE IF key \in DOMAIN json(response.content).v THEN Returned([t |-> "str", v |-> json(response.content).v[key]], <<>>)
  ELSE Returned([t |-> "None"], <<>>)

get_signed_url_tail(args, request, response) == get_field(request, response, "signed_url")

get_file_as_base64_tail(args, request, response) == get_field(request, response, "base64")

TailOf(op, args, request, response) ==
  CASE op = "upload_file" -> upload_file_tail(args, request, response)
    [] op = "upload_file_object" -> upload_file_object_tail(args, request, response)
    [] op = "retrieve_file" -> retrieve_file_tail(args, request, response)
    [] op = "delete_file" -> delete_file_tail(args, request, response)
    [] op = "download_file_as_object" -> download_file_as_object_tail(args, request, response)
    [] op = "get_signed_url" -> get_signed_url_tail(args, request, response)
    [] OTHER -> get_file_as_base64_tail(args, request, response)

\* ------------------------------------------------------ except handlers

\* What a handler does: one error record, then the exception it raises.
Handled(entry, e) == [entry |-> entry, raised |-> Some(e)]

\* except ValidationError / except HTTPStatusError / except Exception, of the
\* three methods that return a FileResponse.
file_response_except(e, what) ==
  CASE e.type = "ValidationError" ->
         Handled(LogEntry("error", <<"Validation error: %s">>, <<Arg("exc", Exc(e.type, e.msg, e.about))>>),
                 Exc("ValueError", "Validation error: ", None))
    [] e.type = "HTTPStatusError" ->
         Handled(LogEntry("error", <<"HTTP error occurred while", what>>, <<Arg("exc", e)>>), e)
    [] OTHER ->
         Handled(LogEntry("error", <<"An error occurred while", what>>, <<Arg("exc", e)>>), e)

upload_file_except(e) == file_response_except(e, "uploading file")

upload_file_object_except(e) == file_response_except(e, "uploading file")

retrieve_file_except(e) == file_response_except(e, "retrieving file")

delete_file_except(e) ==
  IF e.type = "HTTPStatusError"
    THEN Handled(LogEntry("error", <<"HTTP error occurred while", "deleting the file">>, <<Arg("exc", e)>>), e)
    ELSE Handled(LogEntry("error", <<"An error occurred while", "deleting the file">>, <<Arg("exc", e)>>), e)

\* The handlers of the last three methods name the method itself.
named_except(e, method) ==
  IF e.type = "HTTPStatusError"
    THEN Handled(LogEntry("error", <<"HTTP error in", method>>, <<Arg("exc", e)>>), e)
    ELSE Handled(LogEntry("error", <<"Unexpected error in", method>>, <<Arg("exc", e)>>), e)

download_file_as_object_except(e) == named_except(e, "download_file_as_object")

\* A handler that logs and falls off its end.
get_signed_url_except_swallow(e) == [entry |-> named_except(e, "get_signed_url").entry, raised |-> None]

get_signed_url_except(e) == named_except(e, "get_signed_url")

get_file_as_base64_except(e) == named_except(e, "get_file_as_base64")

ExceptOf(op, e) ==
  CASE op = "upload_file" -> upload_file_except(e)
    [] op = "upload_file_object" -> upload_file_object_except(e)
    [] op = "retrieve_file" -> retrieve_file_except(e)
    [] op = "delete_file" -> delete_file_except(e)
    [] op = "download_file_as_object" -> download_file_as_object_except(e)
    [] op = "get_signed_url" -> get_signed_url_except(e)
    [] OTHER -> get_file_as_base64_except(e)

\* ---------------------------------------------------------------- steps

\* The call of caller c moves to record r.
Step(c, r) == call' = [call EXCEPT ![c] = r]

\* A caller between calls may start one.
MayCall(c) == call[c].pc \in {"idle", "done"} /\ calls < MaxCalls

\* The first lines of a method, up to its try: the info record, if it logs one.
Started(op, args, pc, log) == [Idle EXCEPT !.op = op, !.args = Some(args), !.pc = pc, !.log = log]

upload_file(c) ==
  /\ MayCall(c)
  /\ \E file_path \in FilePaths, user_id \in UserIds, purpose \in Purposes :
       Step(c, Started("upload_file", [file_path |-> file_path, user_id |-> user_id, purpose |-> purpose], "open",
                       <<LogEntry("info", <<"Uploading file: %s with purpose: %s for user: %s">>,
                                  <<Arg("file_path", file_path), Arg("purpose", purpose), Arg("user_id", user_id)>>)>>))
  /\ calls' = calls + 1
  /\ UNCHANGED <<base_url, api_key, client, ctor, requests>>

upload_file_object(c) ==
  /\ MayCall(c)
  /\ \E file_object \in Contents, file_name \in FileNames, user_id \in UserIds, purpose \in Purposes :
       Step(c, Started("upload_file_object", [file_object |-> file_object, file_name |-> file_name, user_id |-> user_id, purpose |-> purpose], "send",
                       <<LogEntry("info", <<"Uploading file object: %s with purpose: %s for user: %s">>,
                                  <<Arg("file_name", file_name), Arg("purpose", purpose), Arg("user_id", user_id)>>)>>))
  /\ calls' = calls + 1
  /\ UNCHANGED <<base_url, api_key, client, ctor, requests>>

retrieve_file(c) ==
  /\ MayCall(c)
  /\ \E file_id \in FileIds :
       Step(c, Started("retrieve_file", [file_id |-> file_id], "send",
                       <<LogEntry("info", <<"Retrieving file with ID: %s">>, <<Arg("file_id", file_id)>>)>>))
  /\ calls' = calls + 1
  /\ UNCHANGED <<base_url, api_key, client, ctor, requests>>

delete_file(c) ==
  /\ MayCall(c)
  /\ \E file_id \in FileIds :
       Step(c, Started("delete_file", [file_id |-> file_id], "send",
                       <<LogEntry("info", <<"Attempting to delete file with ID: %s">>, <<Arg("file_id", file_id)>>)>>))
  /\ calls' = calls + 1
  /\ UNCHANGED <<base_url, api_key, client, ctor, requests>>

download_file_as_object(c) ==
  /\ MayCall(c)
  /\ \E file_id \in FileIds : Step(c, Started("download_file_as_object", [file_id |-> file_id], "send", <<>>))
  /\ calls' = calls + 1
  /\ UNCHANGED <<base_url, api_key, client, ctor, requests>>

get_signed_url(c) ==
  /\ MayCall(c)
  /\ \E file_id \in FileIds : Step(c, Started("get_signed_url", [file_id |-> file_id], "send", <<>>))
  /\ calls' = calls + 1
  /\ UNCHANGED <<base_url, api_key, client, ctor, requests>>

get_file_as_base64(c) ==
  /\ MayCall(c)
  /\ \E file_id \in FileIds : Step(c, Started("get_file_as_base64", [file_id |-> file_id], "send", <<>>))
  /\ calls' = calls + 1
  /\ UNCHANGED <<base_url, api_key, client, ctor, requests>>

\* A failed attempt that is sent again.
AfterRaise_retry(op) == "send"

\* Where an exception raised inside the try goes next: upload_file first
\* leaves its with block, the others go straight to their handlers.
AfterRaise(op) == IF op = "upload_file" THEN "exit_with" ELSE "except"

\* with open(file_path, 'rb') as file_object: the handle, or the OSError
\* (its text names the path).
Open(c) ==
  /\ call[c].pc = "open"
  /\ IF FileExists(call[c].args[1].file_path)
       THEN Step(c, [call[c] EXCEPT !.handle = "open", !.pc = "send"])
       ELSE Step(c, [call[c] EXCEPT !.pc = "except",
                       !.pending = Some(Exc("FileNotFoundError", "No such file or directory", Some(Arg("file_path", call[c].args[1].file_path))))])
  /\ UNCHANGED <<base_url, api_key, client, ctor, calls, requests>>

\* What the transport reads from the file part: upload_file's handle has to
\* be open for it.
Readable(r) == r.op # "upload_file" \/ r.handle = "open"

\* The call once its request is out and answered: the rest of the try block
\* (status check, parse, validate or extract) runs on the answer. A method
\* without a with block returns from here.
Answer(r, request, response) ==
  LET sent == [r EXCEPT !.request = Some(request), !.nreq = r.nreq + 1, !.response = Some(response)]
      t == TailOf(r.op, r.args[1], request, response)
  IN IF t.raised # None
       THEN [sent EXCEPT !.pc = AfterRaise(r.op), !.pending = t.raised]
     ELSE IF r.op = "upload_file"
       THEN [sent EXCEPT !.pc = "exit_with", !.result = t.value, !.log = r.log \o t.log]
     ELSE [sent EXCEPT !.pc = "done", !.log = r.log \o t.log, !.outcome = Some([kind |-> "return", value |-> t.value[1]])]

\* self.client.post / get / delete and the lines after it in the try block:
\* the request goes out, and the server's answer, or a network failure,
\* comes back.
Send(c) ==
  /\ call[c].pc = "send"
  /\ \E response \in Responses :
       LET r == call[c]
           request == RequestOf(r.op, client, r.args[1])
       IN IF ~Readable(r)
            THEN Step(c, [r EXCEPT !.pc = AfterRaise(r.op), !.pending = Some(Exc("ValueError", "I/O operation on closed file", None))])
          ELSE IF ~response.arrived
            THEN Step(c, [r EXCEPT !.request = Some(request), !.nreq = r.nreq + 1, !.pc = AfterRaise(r.op),
                                !.pending = Some(Exc("ConnectError", "All connection attempts failed", None))])
          ELSE Step(c, Answer(r, request, response))
  /\ requests' = IF Readable(call[c]) THEN requests + 1 ELSE requests
  /\ client' = client_after_request(client)
  /\ UNCHANGED <<base_url, api_key, ctor, calls>>

\* A handle closed by hand after the request, on the success path only.
with_exit_on_success(handle, pending) == IF pending = None THEN "closed" ELSE handle

\* The handle when the with block is left, with an exception pending or not.
with_exit(handle, pending) == "closed"

\* Leaving upload_file's with block closes the handle, on a return and on
\* an exception alike.
ExitWith(c) ==
  /\ call[c].pc = "exit_with"
  /\ LET r == call[c]
     IN IF r.pending # None
          THEN Step(c, [r EXCEPT !.handle = with_exit(r.handle, r.pending), !.pc = "except"])
          ELSE Step(c, [r EXCEPT !.handle = with_exit(r.handle, r.pending), !.pc = "done", !.outcome = Some([kind |-> "return", value |-> r.result[1]])])
  /\ UNCHANGED <<base_url, api_key, client, ctor, calls, requests>>

\* The except clause that matches: log the error, then raise. (A clause
\* that raised nothing would let the method return None.)
Except(c) ==
  /\ call[c].pc = "except"
  /\ LET r == call[c]
         h == ExceptOf(r.op, r.pending[1])
     IN IF h.raised # None
          THEN Step(c, [r EXCEPT !.pc = "done", !.pending = None, !.log = Append(r.log, h.entry), !.outcome = Some([kind |-> "raise", exc |-> h.raised[1]])])
          ELSE Step(c, [r EXCEPT !.pc = "done", !.pending = None, !.log = Append(r.log, h.entry), !.outcome = Some([kind |-> "return", value |-> [t |-> "None"]])])
  /\ UNCHANGED <<base_url, api_key, client, ctor, calls, requests>>

Next ==
  \E c \in Callers :
    \/ upload_file(c)
    \/ upload_file_object(c)
    \/ retrieve_file(c)
    \/ delete_file(c)
    \/ download_file_as_object(c)
    \/ get_signed_url(c)
    \/ get_file_as_base64(c)
    \/ Open(c)
    \/ Send(c)
    \/ ExitWith(c)
    \/ Except(c)

Spec == Init /\ [][Next]_vars

\* ------------------------------------------------------- reading a call

Finished(c) == call[c].pc = "done"

Raises(c) == Finished(c) /\ call[c].outcome[1].kind = "raise"

Returns(c) == Finished(c) /\ call[c].outcome[1].kind = "return"

\* A request went out and an answer came back.
Answered(c) == call[c].response # None

\* A request went out and the network failed.
Unanswered(c) == call[c].request # None /\ call[c].response = None

RecordOps == {"upload_file", "upload_file_object", "retrieve_file"}

UploadOps == {"upload_file", "upload_file_object"}

FieldOps == {"get_signed_url", "get_file_as_base64"}

FieldOf(op) == IF op = "get_signed_url" THEN "signed_url" ELSE "base64"

\* The three kinds of failure a caller sees.
Taxonomy(e) ==
  CASE e.type = "ValidationError" \/ (e.type = "ValueError" /\ e.msg = "Validation error: ") -> "ValidationError"
    [] e.type = "HTTPStatusError" -> "TransportError"
    [] OTHER -> "UnexpectedError"

TwoHundreds(status_code) == status_code \in 200..299

IsJson(content) == content # "garbage"

IsObject(content) == content \in {"record", "record_no_id", "urls"}

\* The body is a JSON object with every field of a file record.
Conforms(content) == content = "record"

\* upload_file could not open its file.
OpenFailed(c) == call[c].op = "upload_file" /\ ~FileExists(call[c].args[1].file_path)

LastLog(c) == call[c].log[Len(call[c].log)]

\* The words with which an error record names the method it comes from.
OperationWords(op) ==
  CASE op \in UploadOps -> "uploading file"
    [] op = "retrieve_file" -> "retrieving file"
    [] op = "delete_file" -> "deleting the file"
    [] OTHER -> op

NamesOperation(entry, op) == entry.msg[Len(entry.msg)] = OperationWords(op)

\* The record's arguments hold the call's identifier: as an argument of its
\* own, or inside the text of the exception (a path, or a URL that ends in
\* or passes through the file id).
CarriesIdentifier(entry, r) ==
  \E i \in 1..Len(entry.args) :
    LET a == entry.args[i]
    IN \/ a.k = "file_id" /\ r.op \notin UploadOps /\ a.v = r.args[1].file_id
       \/ a.k = "file_path" /\ r.op = "upload_file" /\ a.v = r.args[1].file_path
       \/ a.k = "file_name" /\ r.op = "upload_file_object" /\ a.v = r.args[1].file_name
       \/ /\ a.k = "exc"
          /\ a.v.about # None
          /\ \/ a.v.about[1].k = "file_path" /\ r.op = "upload_file" /\ a.v.about[1].v = r.args[1].file_path
             \/ /\ a.v.about[1].k = "url"
                /\ r.op \notin UploadOps
                /\ \E j \in 1..Len(a.v.about[1].v) : a.v.about[1].v[j] = r.args[1].file_id

\* ---------------------------------------------------------------- claims

\* C1: upload by path, upload by stream and retrieve, answered 2xx with a JSON
\* body that is no complete file record, end by raising a ValidationError:
\* never another kind of error, never a normal return.
C1_NonConformingBodyRaisesValidationError ==
  \A c \in Callers :
    (/\ call[c].op \in RecordOps
     /\ Answered(c)
     /\ TwoHundreds(call[c].response[1].status_code)
     /\ IsJson(call[c].response[1].content)
     /\ ~Conforms(call[c].response[1].content)
     /\ Finished(c))
    => (Raises(c) /\ Taxonomy(call[c].outcome[1].exc) = "ValidationError")

\* retrieve got a 2xx record without its id and raised the validation error;
\* an upload by path got a JSON boolean and did the same.
C1_Witness ==
  \E c, d \in Callers :
    /\ call[c].op = "retrieve_file" /\ Raises(c) /\ Answered(c)
    /\ call[c].response[1] = [arrived |-> TRUE, status_code |-> 200, content |-> "record_no_id"]
    /\ Taxonomy(call[c].outcome[1].exc) = "ValidationError"
    /\ call[d].op = "upload_file" /\ Raises(d) /\ Answered(d)
    /\ call[d].response[1] = [arrived |-> TRUE, status_code |-> 200, content |-> "true"]
    /\ Taxonomy(call[d].outcome[1].exc) = "ValidationError"

\* C2: every operation answered with a status outside 2xx raises a
\* TransportError whatever the body is (malformed, not conforming): the
\* status is tested before the body is read.
C2_FailureStatusRaisesTransportError ==
  \A c \in Callers :
    (Answered(c) /\ ~TwoHundreds(call[c].response[1].status_code) /\ Finished(c))
    => (Raises(c) /\ Taxonomy(call[c].outcome[1].exc) = "TransportError")

\* A signed-URL call answered 302 with a body that is not JSON, and a retrieve
\* answered 404 with a record that lacks its id, both ended in TransportError.
C2_Witness ==
  \E c, d \in Callers :
    /\ call[c].op = "get_signed_url" /\ Raises(c) /\ Answered(c)
    /\ call[c].response[1] = [arrived |-> TRUE, status_code |-> 302, content |-> "garbage"]
    /\ call[d].op = "retrieve_file" /\ Raises(d) /\ Answered(d)
    /\ call[d].response[1] = [arrived |-> TRUE, status_code |-> 404, content |-> "record_no_id"]
    /\ Taxonomy(call[d].outcome[1].exc) = "TransportError"

\* C3: the handle upload_file opens is closed once the call is in its except
\* handler or has ended, on every path, a handle is closed only after the
\* request that reads it went out, and no other method holds a handle.
C3_HandleReleased ==
  \A c \in Callers :
    /\ call[c].pc \in {"except", "done"} => call[c].handle # "open"
    /\ call[c].handle = "closed" => call[c].request # None
    /\ call[c].handle = "open" => call[c].op = "upload_file"
    /\ (Finished(c) /\ call[c].op = "upload_file" /\ ~OpenFailed(c)) => call[c].handle = "closed"

\* One upload by path returned and another failed on the network, and both
\* handles are closed.
C3_Witness ==
  \E c, d \in Callers :
    /\ call[c].op = "upload_file" /\ Returns(c) /\ call[c].handle = "closed"
    /\ call[d].op = "upload_file" /\ Raises(d) /\ Unanswered(d) /\ call[d].handle = "closed"

\* C4: get_signed_url and get_file_as_base64, answered 2xx with a JSON object,
\* return the value of signed_url (base64) as it is when the object has the
\* field, and return None without raising when it has not.
C4_FieldReturnedOrNone ==
  \A c \in Callers :
    (/\ call[c].op \in FieldOps
     /\ Answered(c)
     /\ TwoHundreds(call[c].response[1].status_code)
     /\ IsObject(call[c].response[1].content)
     /\ Finished(c))
    => /\ Returns(c)
       /\ LET obj == json(call[c].response[1].content).v
              key == FieldOf(call[c].op)
              value == call[c].outcome[1].value
          IN IF key \in DOMAIN obj
               THEN value.t = "str" /\ value.v = obj[key]
               ELSE value.t = "None"

\* One call returned the signed URL the server sent, another found no base64
\* field and returned None.
C4_Witness ==
  \E c, d \in Callers :
    /\ call[c].op = "get_signed_url" /\ Returns(c)
    /\ call[c].response[1].content = "urls"
    /\ call[c].outcome[1].value = [t |-> "str", v |-> "https://cdn/f1?sig=1"]
    /\ call[d].op = "get_file_as_base64" /\ Returns(d)
    /\ call[d].response[1].content = "record"
    /\ call[d].outcome[1].value.t = "None"

AuthorizationHeaders(request) == {h \in request.headers : h[1] = "Authorization"}

\* C5, as stated: a client constructed with a credential sends Authorization:
\* Bearer <credential> on every request, a client constructed without one
\* sends no Authorization header.
C5_AsStated ==
  \A c \in Callers :
    call[c].request # None =>
      IF ctor.api_key # None
        THEN AuthorizationHeaders(call[c].request[1]) = {<<"Authorization", <<"Bearer", ctor.api_key[1]>>>>}
        ELSE AuthorizationHeaders(call[c].request[1]) = {}

\* C5, amended: a client constructed with a non-empty credential sends
\* Authorization: Bearer <credential> on every request; a client constructed
\* with no credential or with the empty string sends no Authorization header.
C5_BearerHeaderIffNonEmptyKey ==
  \A c \in Callers :
    call[c].request # None =>
      IF ctor.api_key # None /\ ctor.api_key # Some("")
        THEN AuthorizationHeaders(call[c].request[1]) = {<<"Authorization", <<"Bearer", ctor.api_key[1]>>>>}
        ELSE AuthorizationHeaders(call[c].request[1]) = {}

\* Two different operations of a client built with a key both sent it.
C5_Witness ==
  \E c, d \in Callers :
    /\ ctor.api_key = Some("sk-1")
    /\ call[c].op = "upload_file_object" /\ call[c].request # None
    /\ call[d].op = "delete_file" /\ call[d].request # None
    /\ <<"Authorization", <<"Bearer", "sk-1">>>> \in call[d].request[1].headers

\* C6, as stated: every call that has ended sent exactly one request.
C6_AsStated ==
  /\ requests <= calls
  /\ \A c \in Callers : Finished(c) => call[c].nreq = 1

\* C6, amended: a call never makes a second request; a call that reached its
\* post / get / delete made exactly one, and an upload by path whose file
\* could not be opened ended before making any; so the requests made never
\* exceed the calls made.
C6_AtMostOneRequestPerCall ==
  /\ requests <= calls
  /\ \A c \in Callers :
       /\ call[c].nreq <= 1
       /\ Finished(c) => call[c].nreq = (IF OpenFailed(c) THEN 0 ELSE 1)

\* A call that got a failure status and a call that lost the network have
\* both ended, one request each.
C6_Witness ==
  \E c, d \in Callers :
    /\ Raises(c) /\ Answered(c) /\ call[c].response[1].status_code = 404 /\ call[c].nreq = 1
    /\ Raises(d) /\ Unanswered(d) /\ call[d].nreq = 1
    /\ requests = 2

\* What makes a call fail: no file to open, no answer, a failure status, a
\* body that does not parse, validate or hold fields where the method needs it.
Fails(c) ==
  \/ OpenFailed(c)
  \/ Unanswered(c)
  \/ /\ Answered(c)
     /\ \/ ~TwoHundreds(call[c].response[1].status_code)
        \/ call[c].op # "download_file_as_object" /\ ~IsJson(call[c].response[1].content)
        \/ call[c].op \in RecordOps /\ ~Conforms(call[c].response[1].content)
        \/ call[c].op \in FieldOps /\ ~IsObject(call[c].response[1].content)

\* C7, as stated: a call that raises has logged an error record that carries
\* the operation and the identifier of the call.
C7_AsStated ==
  \A c \in Callers :
    Raises(c) =>
      /\ LastLog(c).level = "error"
      /\ NamesOperation(LastLog(c), call[c].op)
      /\ CarriesIdentifier(LastLog(c), call[c])

\* C7, amended: every failure is raised to the caller, never returned, and
\* the last thing logged before the raise is one error record holding the
\* error's text; it names the operation on every path but the validation
\* failure, whose record names none.
C7_FailuresLoggedAndRaised ==
  \A c \in Callers :
    Finished(c) =>
      /\ Fails(c) <=> Raises(c)
      /\ Raises(c) =>
           /\ LastLog(c).level = "error"
           /\ Len(LastLog(c).args) = 1
           /\ LastLog(c).args[1].k = "exc"
           /\ Cardinality({i \in 1..Len(call[c].log) : call[c].log[i].level = "error"}) = 1
           /\ NamesOperation(LastLog(c), call[c].op)
                <=> Taxonomy(call[c].outcome[1].exc) # "ValidationError"

\* An upload whose file could not be opened raised the I/O error, after
\* logging it, and a signed-URL call that got a JSON boolean raised too.
C7_Witness ==
  \E c, d \in Callers :
    /\ OpenFailed(c) /\ Raises(c)
    /\ call[c].outcome[1].exc.type = "FileNotFoundError"
    /\ LastLog(c).level = "error"
    /\ call[d].op = "get_signed_url" /\ Raises(d) /\ Answered(d)
    /\ call[d].response[1] = [arrived |-> TRUE, status_code |-> 200, content |-> "true"]

\* The file part an upload has to send: name, bytes, and the type guessed
\* from the name or else the generic binary type.
ExpectedFilePart(r) ==
  LET name == IF r.op = "upload_file" THEN r.args[1].file_path.name ELSE r.args[1].file_name
      bytes == IF r.op = "upload_file" THEN FileContent(r.args[1].file_path) ELSE r.args[1].file_object
  IN [field |-> "file", filename |-> name, content |-> bytes,
      content_type |-> IF guess_type(name) = None THEN "application/octet-stream" ELSE guess_type(name)[1]]

UploadShape(r) ==
  /\ r.request[1].method = "POST"
  /\ r.request[1].path = <<"v1", "uploads">>
  /\ r.request[1].files = Some(ExpectedFilePart(r))

\* C8, as stated: an upload is a POST to /v1/uploads whose form fields are
\* purpose and userId, with one file part of name, bytes and content-type.
C8_AsStated ==
  \A c \in Callers :
    (call[c].op \in UploadOps /\ call[c].request # None) =>
      /\ UploadShape(call[c])
      /\ DOMAIN call[c].request[1].data[1] = {"purpose", "userId"}
      /\ call[c].request[1].data[1]["purpose"] = call[c].args[1].purpose
      /\ call[c].request[1].data[1]["userId"] = call[c].args[1].user_id

\* C8, amended: an upload is a POST to /v1/uploads whose form fields are
\* purpose and user_id with the caller's values, with one file part holding
\* the file name, the bytes and the content-type guessed from the extension,
\* application/octet-stream when the guess yields nothing.
C8_UploadRequestShape ==
  \A c \in Callers :
    (call[c].op \in UploadOps /\ call[c].request # None) =>
      /\ UploadShape(call[c])
      /\ DOMAIN call[c].request[1].data[1] = {"purpose", "user_id"}
      /\ call[c].request[1].data[1]["purpose"] = call[c].args[1].purpose
      /\ call[c].request[1].data[1]["user_id"] = call[c].args[1].user_id

\* An upload by path of a .txt file went out as text/plain and a stream
\* named with an unknown extension went out as application/octet-stream.
C8_Witness ==
  \E c, d \in Callers :
    /\ call[c].op = "upload_file" /\ call[c].request # None
    /\ call[c].request[1].files[1].content_type = "text/plain"
    /\ call[d].op = "upload_file_object" /\ call[d].request # None
    /\ call[d].args[1].file_name.ext = "xyz"
    /\ call[d].request[1].files[1].content_type = "application/octet-stream"

\* An upload by path and an upload by stream of the same content, purpose
\* and user, the stream named as the path's base name.
Equivalent(p, q) ==
  /\ p.op = "upload_file"
  /\ q.op = "upload_file_object"
  /\ q.args[1].file_object = FileContent(p.args[1].file_path)
  /\ q.args[1].file_name = p.args[1].file_path.name
  /\ q.args[1].purpose = p.args[1].purpose
  /\ q.args[1].user_id = p.args[1].user_id

SameOutcome(o, p) ==
  /\ o.kind = p.kind
  /\ o.kind = "raise" => o.exc = p.exc
  /\ o.kind = "return" => o.value = p.value

\* C9: an upload by path and the equivalent upload by stream send the same
\* request, and given the same answer (or the same network failure) end in
\* the same outcome: the same record returned or the same error raised.
C9_PathAndStreamEquivalent ==
  \A c, d \in Callers :
    (Equivalent(call[c], call[d]) /\ call[c].request # None /\ call[d].request # None) =>
      /\ call[c].request = call[d].request
      /\ (Finished(c) /\ Finished(d) /\ call[c].response = call[d].response)
           => SameOutcome(call[c].outcome[1], call[d].outcome[1])

\* The two equivalent uploads of a.txt both came back with the same record.
C9_Witness ==
  \E c, d \in Callers :
    /\ Equivalent(call[c], call[d])
    /\ call[c].args[1].file_path.name.ext = "txt"
    /\ Returns(c) /\ Returns(d)
    /\ call[c].response = call[d].response
    /\ call[c].outcome[1].value.t = "FileResponse"

\* C10: base URL, credential and the client's default headers are those of
\* construction in every state, whatever calls ran, returned or raised, in
\* whatever interleaving, and each request is built from them alone.
C10_SessionConfigurationUnchanged ==
  /\ base_url = ctor.base_url
  /\ api_key = ctor.api_key
  /\ client = FileClient_init(ctor.base_url, ctor.api_key).client
  /\ \A c \in Callers :
       call[c].request # None =>
         call[c].request[1] = RequestOf(call[c].op, FileClient_init(ctor.base_url, ctor.api_key).client, call[c].args[1])

\* One caller made both calls: its first sent a request, its second sent
\* one too and has raised.
C10_Witness ==
  \E c, d \in Callers :
    /\ ctor.api_key = Some("sk-1")
    /\ Raises(c)
    /\ call[c].nreq = 1
    /\ call[d].pc = "idle"
    /\ requests = 2
    /\ calls = 2

====
